---- MODULE Spec2Model ----
(***************************************************************************)
(* Model of the point-set registration engine of mne/coreg.py:             *)
(* _decimate_points, _trans_from_params, fit_matched_points and            *)
(* fit_point_cloud.                                                        *)
(*                                                                         *)
(* Numbers.  Coordinates, translations and scale factors are integers.     *)
(* Rotation angles are counted in quarter turns (1 = pi/2), so that every  *)
(* sine and cosine is -1, 0 or 1 and every matrix is an integer matrix.    *)
(* Distances are compared through their squares.                           *)
(*                                                                         *)
(* Each operation is one action, taken from the idle state; it records     *)
(* the call and what the call produced (a value or the raised exception).  *)
(* Return gives control back to the caller.                                *)
(***************************************************************************)
EXTENDS Integers, Sequences, FiniteSets, TLC

\* call: the operation in progress and its arguments; ret: what it produced;
\* lsq: the vectors returned by scipy.optimize.leastsq during the call
VARIABLES call, ret, lsq, called, defaults, mem

vars == <<call, ret, lsq, called, defaults, mem>>

(***************************************************************************)
(* Bounds of the model.                                                    *)
(***************************************************************************)
\* largest rotation angle about z, in quarter turns
MaxAngle == 2
\* largest translation along x and y
MaxShift == 1
\* largest scale factor
MaxScale == 2
\* largest x coordinate of a point to decimate
MaxCoord == 3
\* largest number of points to decimate
MaxPts == 3

(***************************************************************************)
(* Python and numpy primitives.                                            *)
(***************************************************************************)
Min(a, b) == IF a <= b THEN a ELSE b

\* the slice s[a:b] of a Python sequence, indices counted from 0
PySlice(s, a, b) ==
  IF Min(b, Len(s)) <= a THEN <<>> ELSE SubSeq(s, a + 1, Min(b, Len(s)))

\* the sequence <<f(1), ..., f(n)>>
MkSeq(n, f(_)) ==
  LET RECURSIVE Go(_)
      Go(k) == IF k = 0 THEN <<>> ELSE Append(Go(k - 1), f(k))
  IN  Go(n)

\* the matrix product numpy.dot(A, B) of two 2-D arrays
dot(A, B) ==
  LET RECURSIVE Acc(_, _, _)
      Acc(i, j, n) == IF n = 0 THEN 0 ELSE Acc(i, j, n - 1) + A[i][n] * B[n][j]
      Row(i) == MkSeq(Len(B[1]), LAMBDA j : Acc(i, j, Len(B)))
  IN  MkSeq(Len(A), Row)

\* A.T
transpose(A) ==
  LET Row(j) == MkSeq(Len(A), LAMBDA i : A[i][j])
  IN  MkSeq(Len(A[1]), Row)

\* cosine and sine of q quarter turns
Cos(q) == CASE q % 4 = 0 -> 1 [] q % 4 = 1 -> 0 [] q % 4 = 2 -> -1 [] OTHER -> 0

Sin(q) == CASE q % 4 = 0 -> 0 [] q % 4 = 1 -> 1 [] q % 4 = 2 -> 0 [] OTHER -> -1

(***************************************************************************)
(* mne.transforms: rotation, rotation3d, translation, scaling.             *)
(***************************************************************************)
\* the 3x3 rotation matrix from the cosines and sines of the three angles
RotEntries(cx, sx, cy, sy, cz, sz) ==
  << <<cy * cz, (0 - cx) * sz + sx * sy * cz, sx * sz + cx * sy * cz>>,
     <<cy * sz, cx * cz + sx * sy * sz, (0 - sx) * cz + cx * sy * sz>>,
     <<0 - sy, sx * cy, cx * cy>> >>

rotation3d(x, y, z) == RotEntries(Cos(x), Sin(x), Cos(y), Sin(y), Cos(z), Sin(z))

\* a 3x3 matrix as the linear part of a 4x4 homogeneous matrix
Homogeneous(M) ==
  << Append(M[1], 0), Append(M[2], 0), Append(M[3], 0), <<0, 0, 0, 1>> >>

rotation(x, y, z) == Homogeneous(rotation3d(x, y, z))

translation(x, y, z) ==
  << <<1, 0, 0, x>>, <<0, 1, 0, y>>, <<0, 0, 1, z>>, <<0, 0, 0, 1>> >>

scaling(x, y, z) ==
  << <<x, 0, 0, 0>>, <<0, y, 0, 0>>, <<0, 0, z, 0>>, <<0, 0, 0, 1>> >>

(***************************************************************************)
(* _trans_from_params                                                      *)
(***************************************************************************)
\* what an operation produced: exc = "none" and a value, or an exception
\* msg holds the values an exception message is formatted from
Value(v) == [exc |-> "none", val |-> v, msg |-> <<>>]

RaiseMsg(e, m) == [exc |-> e, val |-> <<>>, msg |-> m]

Raise(e) == RaiseMsg(e, <<>>)

\* functools.reduce(dot, trans): left fold, TypeError on an empty list
RECURSIVE FoldDot(_)
FoldDot(ms) ==
  IF Len(ms) = 1 THEN ms[1]
  ELSE dot(FoldDot(SubSeq(ms, 1, Len(ms) - 1)), ms[Len(ms)])

reduce_dot(ms) == IF ms = <<>> THEN Raise("TypeError") ELSE Value(FoldDot(ms))

\* the cursor without "i += 3" after the rotation block
CursorNotAdvanced(do_rotate) == 0

\* the index cursor i after the rotation block and after the translation block
CursorAfterRotate(do_rotate) == IF do_rotate THEN 3 ELSE 0

CursorAfterTranslate(do_rotate, do_translate) ==
  CursorAfterRotate(do_rotate) + (IF do_translate THEN 3 ELSE 0)

\* the list with the translation appended instead of inserted in front
TransListTranslationAppended(param_info, params) ==
  LET i1 == CursorAfterRotate(param_info[1])
      i2 == CursorAfterTranslate(param_info[1], param_info[2])
      l1 == IF param_info[1]
              THEN <<rotation(params[1], params[2], params[3])>> ELSE <<>>
      l2 == IF param_info[2]
              THEN Append(l1, translation(params[i1 + 1], params[i1 + 2],
                                          params[i1 + 3]))
              ELSE l1
  IN  IF param_info[3] = 1
        THEN Append(l2, scaling(params[i2 + 1], params[i2 + 1], params[i2 + 1]))
        ELSE IF param_info[3] = 3
          THEN Append(l2, scaling(params[i2 + 1], params[i2 + 2], params[i2 + 3]))
          ELSE l2

\* the list with the isotropic scale as s times the 4x4 identity
TransListScaledIdentity(param_info, params) ==
  LET i1 == CursorAfterRotate(param_info[1])
      i2 == CursorAfterTranslate(param_info[1], param_info[2])
      l1 == IF param_info[1]
              THEN <<rotation(params[1], params[2], params[3])>> ELSE <<>>
      l2 == IF param_info[2]
              THEN <<translation(params[i1 + 1], params[i1 + 2],
                                 params[i1 + 3])>> \o l1
              ELSE l1
      s == params[i2 + 1]
  IN  IF param_info[3] = 1
        THEN Append(l2, << <<s, 0, 0, 0>>, <<0, s, 0, 0>>, <<0, 0, s, 0>>,
                           <<0, 0, 0, s>> >>)
        ELSE IF param_info[3] = 3
          THEN Append(l2, scaling(params[i2 + 1], params[i2 + 2], params[i2 + 3]))
          ELSE l2

\* the list trans just before the reduce
TransList(param_info, params) ==
  LET do_rotate == param_info[1]
      do_translate == param_info[2]
      do_scale == param_info[3]
      r == PySlice(params, 0, 3)
      i1 == CursorAfterRotate(do_rotate)
      t == PySlice(params, i1, i1 + 3)
      i2 == CursorAfterTranslate(do_rotate, do_translate)
      sc == PySlice(params, i2, i2 + 3)
      l1 == IF do_rotate THEN <<rotation(r[1], r[2], r[3])>> ELSE <<>>
      l2 == IF do_translate THEN <<translation(t[1], t[2], t[3])>> \o l1 ELSE l1
  IN  IF do_scale = 1
        THEN Append(l2, scaling(params[i2 + 1], params[i2 + 1], params[i2 + 1]))
        ELSE IF do_scale = 3
          THEN Append(l2, scaling(sc[1], sc[2], sc[3]))
          ELSE l2

trans_from_params(param_info, params) ==
  LET do_rotate == param_info[1]
      do_translate == param_info[2]
      do_scale == param_info[3]
      i1 == CursorAfterRotate(do_rotate)
      i2 == CursorAfterTranslate(do_rotate, do_translate)
  IN  IF do_rotate /\ Len(PySlice(params, 0, 3)) # 3 THEN Raise("ValueError")
      ELSE IF do_translate /\ Len(PySlice(params, i1, i1 + 3)) # 3
        THEN Raise("ValueError")
      ELSE IF do_scale = 1 /\ Len(params) <= i2 THEN Raise("IndexError")
      ELSE IF do_scale = 3 /\ Len(PySlice(params, i2, i2 + 3)) # 3
        THEN Raise("ValueError")
      ELSE reduce_dot(TransList(param_info, params))

(***************************************************************************)
(* Parameter vectors of the model.                                         *)
(***************************************************************************)
AngleVals == 0..MaxAngle

ShiftVals == 0..MaxShift

ScaleVals == 1..MaxScale

\* rotation angles: any angle about z, at most a quarter turn about x and y
AngleTriples == {<<x, y, z>> : x \in 0..1, y \in 0..1, z \in AngleVals}

\* translations in the x-y plane
ShiftTriples == {<<x, y, 0>> : x \in ShiftVals, y \in ShiftVals}

ScaleTuples(do_scale) ==
  CASE do_scale = 1 -> {<<s>> : s \in ScaleVals}
    [] do_scale = 3 -> {<<s, 1, u>> : s \in ScaleVals, u \in ScaleVals}
    [] OTHER -> {<<>>}

\* the parameter vectors laid out for a descriptor
ParamGrid(param_info) ==
  {a \o t \o s :
     a \in (IF param_info[1] THEN AngleTriples ELSE {<<>>}),
     t \in (IF param_info[2] THEN ShiftTriples ELSE {<<>>}),
     s \in ScaleTuples(param_info[3])}

Descriptors == {<<r, t, s>> : r \in BOOLEAN, t \in BOOLEAN, s \in 0..3}

(***************************************************************************)
(* numpy arrays of points.  A 1-D array is [ndim |-> 1, data |-> <<x,y,z>>],*)
(* a 2-D array is [ndim |-> 2, data |-> <<row, ...>>].                     *)
(***************************************************************************)
Array1(p) == [ndim |-> 1, data |-> p]

Array2(rows) == [ndim |-> 2, data |-> rows]

\* numpy.atleast_2d: a 1-D array of length n becomes the single row of a
\* 2-D array of shape (1, n)
atleast_2d(a) == IF a.ndim = 1 THEN Array2(<<a.data>>) ELSE a

\* a.shape
shape(a) ==
  IF a.ndim = 1 THEN <<Len(a.data)>>
  ELSE <<Len(a.data), IF a.data = <<>> THEN 0 ELSE Len(a.data[1])>>

\* numpy.hstack((rows, numpy.ones((len(rows), 1))))
hstack_ones(rows) == MkSeq(Len(rows), LAMBDA i : Append(rows[i], 1))

\* est[:, :3]
first3(rows) == MkSeq(Len(rows), LAMBDA i : SubSeq(rows[i], 1, 3))

\* M * s for a scalar s
times_scalar(M, s) ==
  LET Row(i) == MkSeq(Len(M[i]), LAMBDA j : M[i][j] * s)
  IN  MkSeq(Len(M), Row)

\* the factors applied to the rows instead
times_col(M, v) ==
  LET Row(i) == MkSeq(Len(M[i]), LAMBDA j : M[i][j] * v[i])
  IN  MkSeq(Len(M), Row)

\* M * [sx, sy, sz]: broadcast along the last axis
times_row(M, v) ==
  LET Row(i) == MkSeq(Len(M[i]), LAMBDA j : M[i][j] * v[j])
  IN  MkSeq(Len(M), Row)

\* a - b, elementwise
minus(a, b) ==
  LET Row(i) == MkSeq(Len(a[i]), LAMBDA j : a[i][j] - b[i][j])
  IN  MkSeq(Len(a), Row)

RECURSIVE SumSeq(_)
SumSeq(s) == IF s = <<>> THEN 0 ELSE s[1] + SumSeq(Tail(s))

\* numpy.sum(d ** 2, axis=1): the squared length of every row
sumsq_rows(d) ==
  LET Row(i) == SumSeq(MkSeq(Len(d[i]), LAMBDA j : d[i][j] * d[i][j]))
  IN  MkSeq(Len(d), Row)

\* an optional argument: None, or a value
None == <<>>

Some(v) == <<v>>

(***************************************************************************)
(* fit_matched_points                                                      *)
(***************************************************************************)
\* the dispatch without its last branch, (True, True, 1)
FmpSupportedThreeBranches(param_info) ==
  \/ param_info = <<TRUE, FALSE, 0>>
  \/ param_info = <<TRUE, FALSE, 1>>
  \/ param_info = <<TRUE, TRUE, 0>>

\* the descriptors for which fit_matched_points defines an error closure
FmpSupported(param_info) ==
  \/ param_info = <<TRUE, FALSE, 0>>
  \/ param_info = <<TRUE, FALSE, 1>>
  \/ param_info = <<TRUE, TRUE, 0>>
  \/ param_info = <<TRUE, TRUE, 1>>

\* the default initial guess of each closure
FmpDefaultX0(param_info) ==
  CASE param_info = <<TRUE, FALSE, 0>> -> <<0, 0, 0>>
    [] param_info = <<TRUE, FALSE, 1>> -> <<0, 0, 0, 1>>
    [] param_info = <<TRUE, TRUE, 0>> -> <<0, 0, 0, 0, 0, 0>>
    [] param_info = <<TRUE, TRUE, 1>> -> <<0, 0, 0, 0, 0, 0, 1>>

\* the matrix trans that the closure error(x) builds
FmpClosureTrans(param_info, x) ==
  CASE param_info = <<TRUE, FALSE, 0>> -> rotation3d(x[1], x[2], x[3])
    [] param_info = <<TRUE, FALSE, 1>> ->
         times_scalar(rotation3d(x[1], x[2], x[3]), x[4])
    [] param_info = <<TRUE, TRUE, 0>> ->
         dot(translation(x[4], x[5], x[6]), rotation(x[1], x[2], x[3]))
    [] param_info = <<TRUE, TRUE, 1>> ->
         FoldDot(<<translation(x[4], x[5], x[6]), rotation(x[1], x[2], x[3]),
                   scaling(x[7], x[7], x[7])>>)

\* est of the closure: dot(src_pts, trans.T), cut to three columns; src is
\* the source as the closure sees it (with the column of ones if translate)
FmpEst(param_info, src, x) ==
  first3(dot(src, transpose(FmpClosureTrans(param_info, x))))

\* error(x) before the ravel: the rows tgt_pts - est
FmpError(param_info, src, tgt, x) == minus(tgt, FmpEst(param_info, src, x))

\* the sum of squares that leastsq minimises
SumSquares(rows) == SumSeq(sumsq_rows(rows))

(***************************************************************************)
(* scipy.optimize.leastsq, as used by the fitters.  It raises TypeError    *)
(* when there are more parameters than residuals.  Levenberg-Marquardt     *)
(* steps along J^T r, damped by J^T J (J the Jacobian of the residual r).  *)
(* Where r = 0, or where J^T r = 0 and J has full column rank, the step    *)
(* is zero and leastsq returns its initial guess; from any other guess it  *)
(* is taken to reach a vector of least cost.                               *)
(***************************************************************************)
\* the derivative of rotation3d with respect to its k-th angle: every entry
\* is a + b * cos + c * sin in that angle, with derivative c * cos - b * sin
rotation3d_deriv(k, x, y, z) ==
  CASE k = 1 ->
         minus(RotEntries(0 - Sin(x), Cos(x), Cos(y), Sin(y), Cos(z), Sin(z)),
               RotEntries(0, 0, Cos(y), Sin(y), Cos(z), Sin(z)))
    [] k = 2 ->
         minus(RotEntries(Cos(x), Sin(x), 0 - Sin(y), Cos(y), Cos(z), Sin(z)),
               RotEntries(Cos(x), Sin(x), 0, 0, Cos(z), Sin(z)))
    [] k = 3 ->
         minus(RotEntries(Cos(x), Sin(x), Cos(y), Sin(y), 0 - Sin(z), Cos(z)),
               RotEntries(Cos(x), Sin(x), Cos(y), Sin(y), 0, 0))

\* rows.ravel()
RECURSIVE ravel(_)
ravel(rows) == IF rows = <<>> THEN <<>> ELSE rows[1] \o ravel(Tail(rows))

\* the scalar product of two vectors
Inner(a, b) == SumSeq(MkSeq(Len(a), LAMBDA i : a[i] * b[i]))

\* the columns of the Jacobian of est = s * R * p + t at x, one for every
\* parameter: the angles, then t if has_t, then s if has_s; pts are the
\* source points (three columns)
Jacobian(pts, x, has_t, has_s) ==
  LET s == IF has_s THEN x[Len(x)] ELSE 1
      angle(k) == ravel(dot(pts, transpose(
                    times_scalar(rotation3d_deriv(k, x[1], x[2], x[3]), s))))
      shift(j) == ravel(MkSeq(Len(pts), LAMBDA i :
                    MkSeq(3, LAMBDA c : IF c = j THEN 1 ELSE 0)))
      scale == ravel(dot(pts, transpose(rotation3d(x[1], x[2], x[3]))))
  IN  <<angle(1), angle(2), angle(3)>>
        \o (IF has_t THEN <<shift(1), shift(2), shift(3)>> ELSE <<>>)
        \o (IF has_s THEN <<scale>> ELSE <<>>)

\* the determinant of a square matrix, by expansion along its first row
RECURSIVE Det(_)
Det(M) ==
  IF Len(M) = 1 THEN M[1][1]
  ELSE LET minor(j) == MkSeq(Len(M) - 1, LAMBDA i :
                         SubSeq(M[i + 1], 1, j - 1)
                           \o SubSeq(M[i + 1], j + 1, Len(M)))
           term(j) == IF M[1][j] = 0 THEN 0
                      ELSE (IF j % 2 = 1 THEN 1 ELSE 0 - 1) * M[1][j]
                             * Det(minor(j))
       IN  SumSeq(MkSeq(Len(M), term))

\* J has full column rank: the determinant of J^T J is not zero
FullRank(cols) ==
  Det(MkSeq(Len(cols), LAMBDA i :
        MkSeq(Len(cols), LAMBDA j : Inner(cols[i], cols[j])))) # 0

\* leastsq makes no step from x: the residual rows res are zero, or the
\* gradient vanishes and J^T J is regular
Stationary(res, pts, x, has_t, has_s) ==
  LET r == ravel(res)
      J == Jacobian(pts, x, has_t, has_s)
  IN  \/ \A i \in 1..Len(r) : r[i] = 0
      \/ /\ \A k \in 1..Len(J) : Inner(J[k], r) = 0
         /\ FullRank(J)

\* the vectors of least cost among a finite set of candidates
ArgMin(cands, Cost(_)) ==
  LET costs == {<<c, Cost(c)>> : c \in cands}
      least == CHOOSE m \in {e[2] : e \in costs} : \A e \in costs : m <= e[2]
  IN  {e[1] : e \in {d \in costs : d[2] = least}}

\* scipy.optimize.leastsq(error, x0, full_output=True, maxfev=maxfev): the
\* pairs <<x, ier>> it may return.  Cost(x) is the sum of squares of
\* error(x), stationary says that leastsq makes no step from x0, cands are
\* the parameter vectors of the model, maxfev = 0 stands for the default of
\* 200 * (n + 1) calls.  ier is 1 to 4 for a solution found; a run cut
\* short by maxfev ends with ier = 5 at an iterate no worse than x0.  With
\* full_output leastsq neither warns nor raises for ier = 5
leastsq(Cost(_), stationary, x0, cands, maxfev) ==
  IF stationary THEN {<<x0, 4>>}
  ELSE IF maxfev # 0 /\ maxfev <= Len(x0) + 1
    THEN {<<c, 5>> : c \in {d \in cands \cup {x0} : Cost(d) <= Cost(x0)}}
  ELSE {<<c, 1>> : c \in ArgMin(cands \cup {x0}, Cost)}

(***************************************************************************)
(* fit_matched_points: the steps of the function body.                     *)
(***************************************************************************)
\* a Python flag argument: a bool or an int
PyBool(b) == [type |-> "bool", b |-> b, n |-> IF b THEN 1 ELSE 0]

PyInt(n) == [type |-> "int", b |-> n # 0, n |-> n]

\* bool(v) and int(v)
bool(v) == v.b

int(v) == v.n

\* the comparison as err >= tol
any_reaches(err2, tol) ==
  \E i \in 1..Len(err2) : tol <= 0 \/ err2[i] >= tol * tol

\* numpy.any(err > tol), err the square roots of err2
any_exceeds(err2, tol) ==
  \E i \in 1..Len(err2) : tol < 0 \/ err2[i] > tol * tol

\* the value of out looked at ahead of the tolerance
FmpFinishOutFirst(param_info, src, tgt, tol, out, x) ==
  LET trans == trans_from_params(param_info, x).val
      src_h == IF ~param_info[2] THEN hstack_ones(src) ELSE src
      est_pts == first3(dot(src_h, transpose(trans)))
      err2 == sumsq_rows(minus(est_pts, tgt))
  IN  IF out \notin {"params", "trans"}
        THEN RaiseMsg("ValueError", <<"Invalid out parameter", out>>)
      ELSE IF tol # None /\ any_exceeds(err2, tol[1])
        THEN RaiseMsg("RuntimeError", <<"Error exceeds tolerance", err2>>)
      ELSE IF out = "params" THEN Value(x)
      ELSE Value(trans)

\* lines 353-373: from the solution x of leastsq to the result of the call;
\* src is src_pts as left by line 310
FmpFinish(param_info, src, tgt, tol, out, x) ==
  LET trans == trans_from_params(param_info, x).val
      src_h == IF ~param_info[2] THEN hstack_ones(src) ELSE src
      est_pts == first3(dot(src_h, transpose(trans)))
      err2 == sumsq_rows(minus(est_pts, tgt))
  IN  IF tol # None /\ any_exceeds(err2, tol[1])
        THEN RaiseMsg("RuntimeError", <<"Error exceeds tolerance", err2>>)
      ELSE IF out = "params" THEN Value(x)
      ELSE IF out = "trans" THEN Value(trans)
      ELSE RaiseMsg("ValueError", <<"Invalid out parameter", out>>)

\* the checks with the dispatch on the descriptor ahead of the shape check
FmpPrepareDispatchFirst(src_pts, tgt_pts, rotate, translate, scale) ==
  LET src2 == atleast_2d(src_pts)
      tgt2 == atleast_2d(tgt_pts)
      param_info == <<bool(rotate), bool(translate), int(scale)>>
  IN  IF ~FmpSupported(param_info)
        THEN RaiseMsg("NotImplementedError",
                      <<"not implemented", param_info[1], param_info[2],
                        param_info[3]>>)
      ELSE IF shape(src2) # shape(tgt2)
        THEN RaiseMsg("ValueError",
                      <<"must have same shape", shape(src2), shape(tgt2)>>)
      ELSE Value([param_info |-> param_info,
                  src |-> IF param_info[2] THEN hstack_ones(src2.data)
                          ELSE src2.data,
                  tgt |-> tgt2.data])

\* lines 299-312: the checks and coercions before the dispatch.  The result
\* is the exception raised, or the arrays and descriptor the fit works on
FmpPrepare(src_pts, tgt_pts, rotate, translate, scale) ==
  LET src2 == atleast_2d(src_pts)
      tgt2 == atleast_2d(tgt_pts)
      param_info == <<bool(rotate), bool(translate), int(scale)>>
  IN  IF shape(src2) # shape(tgt2)
        THEN RaiseMsg("ValueError",
                      <<"must have same shape", shape(src2), shape(tgt2)>>)
      ELSE IF ~FmpSupported(param_info)
        THEN RaiseMsg("NotImplementedError",
                      <<"not implemented", param_info[1], param_info[2],
                        param_info[3]>>)
      ELSE Value([param_info |-> param_info,
                  src |-> IF param_info[2] THEN hstack_ones(src2.data)
                          ELSE src2.data,
                  tgt |-> tgt2.data])

\* line 351: the call of leastsq.  The closure unpacks x into as many names
\* as the layout has entries (ValueError otherwise); leastsq itself raises
\* TypeError when the parameters outnumber the residuals
FmpSolve(prep, x0) ==
  LET param_info == prep.param_info
      start == IF x0 = None THEN FmpDefaultX0(param_info) ELSE x0[1]
  IN  IF Len(start) # Len(FmpDefaultX0(param_info))
        THEN RaiseMsg("ValueError", <<"unpack">>)
      ELSE IF Len(start) > 3 * Len(prep.tgt)
        THEN RaiseMsg("TypeError", <<"Improper input">>)
      ELSE Value(leastsq(
             LAMBDA x : SumSquares(FmpError(param_info, prep.src, prep.tgt, x)),
             Stationary(FmpError(param_info, prep.src, prep.tgt, start),
                        first3(prep.src), start, param_info[2],
                        param_info[3] = 1),
             start, ParamGrid(param_info), 0))

(***************************************************************************)
(* get_ras_to_neuromag_trans.  The landmarks of the model are such that    *)
(* the norms and the unit vectors are integers.                            *)
(***************************************************************************)
\* a zero-dimensional array
Array0(v) == [ndim |-> 0, data |-> v]

\* the loop of lines 402-406 run over nasion and lpa only
ras_invalid_first_two(nasion, lpa, rpa) ==
  \E pt \in {nasion, lpa} : pt.ndim # 1 \/ Len(pt.data) # 3

\* lines 402-403: some landmark is not a one-dimensional array of length 3
ras_invalid(nasion, lpa, rpa) ==
  \E pt \in {nasion, lpa, rpa} : pt.ndim # 1 \/ Len(pt.data) # 3

\* numpy.linalg.norm of a vector whose norm is an integer
norm(v) ==
  LET n2 == Inner(v, v)
  IN  CHOOSE n \in 0..n2 : n * n = n2

\* v / c for a vector whose entries c divides
divided(v, c) == MkSeq(Len(v), LAMBDA j : v[j] \div c)

\* a + b, a - b and c * a for vectors
vplus(a, b) == MkSeq(Len(a), LAMBDA j : a[j] + b[j])

vminus(a, b) == MkSeq(Len(a), LAMBDA j : a[j] - b[j])

vtimes(c, a) == MkSeq(Len(a), LAMBDA j : c * a[j])

\* the product with its operands exchanged
cross_reversed(a, b) ==
  <<b[2] * a[3] - b[3] * a[2], b[3] * a[1] - b[1] * a[3],
    b[1] * a[2] - b[2] * a[1]>>

\* numpy.cross
cross(a, b) ==
  <<a[2] * b[3] - a[3] * b[2], a[3] * b[1] - a[1] * b[3],
    a[1] * b[2] - a[2] * b[1]>>

\* line 411: origin = lpa + dot(nasion - lpa, right_unit) * right_unit
ras_origin(nasion, lpa, right_unit) ==
  vplus(lpa, vtimes(Inner(vminus(nasion, lpa), right_unit), right_unit))

\* lines 408-426, for three vectors of length 3
ras_trans(nasion, lpa, rpa) ==
  LET right == vminus(rpa, lpa)
      right_unit == divided(right, norm(right))
      origin == ras_origin(nasion, lpa, right_unit)
      anterior == vminus(nasion, origin)
      anterior_unit == divided(anterior, norm(anterior))
      superior_unit == cross(right_unit, anterior_unit)
      origin_trans == translation(0 - origin[1], 0 - origin[2], 0 - origin[3])
      rot_trans == <<Append(right_unit, 0), Append(anterior_unit, 0),
                     Append(superior_unit, 0), <<0, 0, 0, 1>>>>
  IN  dot(rot_trans, origin_trans)

\* without the check of lines 402-406 the arithmetic of numpy fails on
\* arrays it cannot broadcast
get_ras_to_neuromag_trans(nasion, lpa, rpa) ==
  IF ras_invalid(nasion, lpa, rpa)
    THEN RaiseMsg("ValueError",
                  <<"Points have to be provided as one dimensional arrays of length 3.">>)
  ELSE IF \E pt \in {nasion, lpa, rpa} : pt.ndim # 1 \/ Len(pt.data) # 3
    THEN RaiseMsg("ValueError", <<"operands could not be broadcast together">>)
  ELSE Value(ras_trans(nasion.data, lpa.data, rpa.data))

(***************************************************************************)
(* _point_cloud_error, _point_cloud_error_balltree and fit_point_cloud.    *)
(* Distances are kept as their squares.                                    *)
(***************************************************************************)
\* the squared Euclidean distance of two points
dist2(p, q) == SumSeq(MkSeq(Len(p), LAMBDA j : (p[j] - q[j]) * (p[j] - q[j])))

\* the least element of a non-empty sequence of numbers
RECURSIVE min_seq(_)
min_seq(s) == IF Len(s) = 1 THEN s[1] ELSE Min(s[1], min_seq(Tail(s)))

\* cdist(src_pts, tgt_pts).min(axis=1)
point_cloud_error(src_pts, tgt_pts) ==
  LET Y == MkSeq(Len(src_pts), LAMBDA i :
             MkSeq(Len(tgt_pts), LAMBDA j : dist2(src_pts[i], tgt_pts[j])))
  IN  MkSeq(Len(Y), LAMBDA i : min_seq(Y[i]))

\* sklearn's BallTree(tgt_pts): the tree holding the target points
BallTree(tgt_pts) == [points |-> tgt_pts]

\* a query that passes over the first two points of the tree
point_cloud_error_skipping(src_pts, tgt_tree) ==
  LET RECURSIVE Scan(_, _, _)
      Scan(p, j, best) ==
        IF j > Len(tgt_tree.points) THEN best
        ELSE Scan(p, j + 1, Min(best, dist2(p, tgt_tree.points[j])))
      n == Len(tgt_tree.points)
  IN  MkSeq(Len(src_pts), LAMBDA i :
        Scan(src_pts[i], 3, dist2(src_pts[i], tgt_tree.points[n])))

\* tgt_tree.query(src_pts): for each source point the distance to its
\* nearest neighbour, found by visiting the points of the tree and keeping
\* the best so far
point_cloud_error_balltree(src_pts, tgt_tree) ==
  LET RECURSIVE Scan(_, _, _)
      Scan(p, j, best) ==
        IF j > Len(tgt_tree.points) THEN best
        ELSE Scan(p, j + 1, Min(best, dist2(p, tgt_tree.points[j])))
  IN  MkSeq(Len(src_pts), LAMBDA i :
        Scan(src_pts[i], 2, dist2(src_pts[i], tgt_tree.points[1])))

\* a dict is a function from its keys; d.update(e)
dict_update(d, e) ==
  [k \in DOMAIN d \cup DOMAIN e |-> IF k \in DOMAIN e THEN e[k] ELSE d[k]]

\* d.get(key, default)
dict_get(d, key, default) == IF key \in DOMAIN d THEN d[key] ELSE default

\* the empty dict
EmptyDict == [k \in {} |-> 0]

\* lines 515-516: kwargs = {'epsfcn': 0.01} updated by leastsq_args; epsfcn
\* is in units of 0.01
FpcKwargs(leastsq_args) ==
  dict_update([k \in {"epsfcn"} |-> 1], leastsq_args)

\* the dispatch without the anisotropic branch, (True, False, 3)
FpcSupportedIsotropic(param_info) ==
  \/ param_info = <<TRUE, FALSE, 0>>
  \/ param_info = <<TRUE, FALSE, 1>>
  \/ param_info = <<TRUE, TRUE, 0>>

\* the descriptors for which fit_point_cloud defines an error closure
FpcSupported(param_info) ==
  \/ param_info = <<TRUE, FALSE, 0>>
  \/ param_info = <<TRUE, FALSE, 1>>
  \/ param_info = <<TRUE, FALSE, 3>>
  \/ param_info = <<TRUE, TRUE, 0>>

FpcDefaultX0(param_info) ==
  CASE param_info = <<TRUE, FALSE, 0>> -> <<0, 0, 0>>
    [] param_info = <<TRUE, FALSE, 1>> -> <<0, 0, 0, 1>>
    [] param_info = <<TRUE, FALSE, 3>> -> <<0, 0, 0, 1, 1, 1>>
    [] param_info = <<TRUE, TRUE, 0>> -> <<0, 0, 0, 0, 0, 0>>

\* the matrix trans that the closure error(x) builds
FpcClosureTrans(param_info, x) ==
  CASE param_info = <<TRUE, FALSE, 0>> -> rotation3d(x[1], x[2], x[3])
    [] param_info = <<TRUE, FALSE, 1>> ->
         times_scalar(rotation3d(x[1], x[2], x[3]), x[4])
    [] param_info = <<TRUE, FALSE, 3>> ->
         times_row(rotation3d(x[1], x[2], x[3]), <<x[4], x[5], x[6]>>)
    [] param_info = <<TRUE, TRUE, 0>> ->
         dot(translation(x[4], x[5], x[6]), rotation(x[1], x[2], x[3]))

\* error(x): the squared distance of every moved source point to its
\* nearest target point, by the selected errfunc
FpcError(param_info, src, tgt, sklearn, x) ==
  LET est == first3(dot(src, transpose(FpcClosureTrans(param_info, x))))
  IN  IF sklearn THEN point_cloud_error_balltree(est, BallTree(tgt))
      ELSE point_cloud_error(est, tgt)

\* lines 519-574: coercions, choice of errfunc and dispatch
FpcPrepare(src_pts, tgt_pts, rotate, translate, scale) ==
  LET src2 == atleast_2d(src_pts)
      tgt2 == atleast_2d(tgt_pts)
      param_info == <<bool(rotate), bool(translate), int(scale)>>
  IN  IF ~FpcSupported(param_info)
        THEN RaiseMsg("NotImplementedError",
                      <<"not implemented", param_info[1], param_info[2],
                        param_info[3]>>)
      ELSE Value([param_info |-> param_info,
                  src |-> IF param_info[2] THEN hstack_ones(src2.data)
                          ELSE src2.data,
                  tgt |-> tgt2.data])

\* line 576: the call of leastsq with kwargs; x0 or the default guess
FpcSolve(prep, sklearn, x0, kwargs) ==
  LET param_info == prep.param_info
      start == IF x0 = None \/ x0[1] = <<>> THEN FpcDefaultX0(param_info)
               ELSE x0[1]
      Cost(x) == SumSeq(FpcError(param_info, prep.src, prep.tgt, sklearn, x))
  IN  IF Len(start) # Len(FpcDefaultX0(param_info))
        THEN RaiseMsg("ValueError", <<"unpack">>)
      ELSE IF Len(start) > Len(prep.src)
        THEN RaiseMsg("TypeError", <<"Improper input">>)
      ELSE Value(leastsq(Cost, Cost(start) = 0, start, ParamGrid(param_info),
                         dict_get(kwargs, "maxfev", 0)))

\* lines 580-587
FpcFinish(param_info, out, est) ==
  IF out = "params" THEN Value(est)
  ELSE IF out = "trans" THEN trans_from_params(param_info, est)
  ELSE RaiseMsg("ValueError", <<"Invalid out parameter", out>>)

(***************************************************************************)
(* _decimate_points.  res is even, so that res / 2 is an integer.          *)
(***************************************************************************)
\* numpy.arange(start, stop, step) for a positive step
arange(start, stop, step) ==
  IF stop <= start THEN <<>>
  ELSE MkSeq((stop - start + step - 1) \div step,
             LAMBDA k : start + (k - 1) * step)

\* pts.min(0) and pts.max(0) along one axis
axis_min(pts, j) == min_seq(MkSeq(Len(pts), LAMBDA i : pts[i][j]))

axis_max(pts, j) == 0 - min_seq(MkSeq(Len(pts), LAMBDA i : 0 - pts[i][j]))

\* the edges started at the minimum itself, without the margin of res / 2
bin_edges_from_min(pts, res, j) ==
  arange(axis_min(pts, j), axis_max(pts, j) + res, res)

\* the bin edges xax, yax, zax (j = 1, 2, 3)
bin_edges(pts, res, j) ==
  arange(axis_min(pts, j) - res \div 2, axis_max(pts, j) + res, res)

\* the bin of numpy.histogramdd that counts the value v: bin b covers
\* edges[b] <= v < edges[b + 1], the last bin also covers its right edge;
\* 0 if no bin counts v
hist_bin(edges, v) ==
  LET nbins == Len(edges) - 1
      inside == {b \in 1..nbins :
                   /\ edges[b] <= v
                   /\ \/ v < edges[b + 1]
                      \/ b = nbins /\ v = edges[b + 1]}
  IN  IF inside = {} THEN 0 ELSE CHOOSE b \in inside : TRUE

\* the voxels with H > 0
occupied(pts, res) ==
  LET bin(p) == <<hist_bin(bin_edges(pts, res, 1), p[1]),
                  hist_bin(bin_edges(pts, res, 2), p[2]),
                  hist_bin(bin_edges(pts, res, 3), p[3])>>
      bins == {bin(pts[i]) : i \in 1..Len(pts)}
  IN  {b \in bins : b[1] > 0 /\ b[2] > 0 /\ b[3] > 0}

\* the order of numpy.nonzero: by x bin, then y bin, then z bin
vox_before(a, b) ==
  \/ a[1] < b[1]
  \/ a[1] = b[1] /\ a[2] < b[2]
  \/ a[1] = b[1] /\ a[2] = b[2] /\ a[3] < b[3]

RECURSIVE nonzero(_)
nonzero(voxels) ==
  IF voxels = {} THEN <<>>
  ELSE LET first == CHOOSE v \in voxels :
                      \A w \in voxels \ {v} : vox_before(v, w)
       IN  <<first>> \o nonzero(voxels \ {first})

\* the test of lines 198-201 with a voxel of half the width
RECURSIVE select_half_width(_, _, _)
select_half_width(pts, corner, res) ==
  IF pts = <<>> THEN <<>>
  ELSE LET p == pts[1]
           idx == \A j \in 1..3 :
                    p[j] >= corner[j] /\ p[j] < corner[j] + res \div 2
       IN  (IF idx THEN <<p>> ELSE <<>>)
             \o select_half_width(Tail(pts), corner, res)

\* pts[idx]: the points that pass the test of lines 198-201 for the voxel
\* whose lower corner is (x, y, z), in the order of pts
RECURSIVE select(_, _, _)
select(pts, corner, res) ==
  IF pts = <<>> THEN <<>>
  ELSE LET p == pts[1]
           idx == \A j \in 1..3 : p[j] >= corner[j] /\ p[j] < corner[j] + res
       IN  (IF idx THEN <<p>> ELSE <<>>) \o select(Tail(pts), corner, res)

\* numpy.argmin: the first index of the least value
argmin(d) == CHOOSE i \in 1..Len(d) :
               /\ \A k \in 1..Len(d) : d[i] <= d[k]
               /\ \A k \in 1..(i - 1) : d[k] > d[i]

\* the lower corner of a voxel
vox_corner(pts, res, v) ==
  <<bin_edges(pts, res, 1)[v[1]], bin_edges(pts, res, 2)[v[2]],
    bin_edges(pts, res, 3)[v[3]]>>

\* the loop of lines 194-208; argmin raises ValueError on an empty ipts
RECURSIVE decimate_loop(_, _, _)
decimate_loop(pts, res, voxels) ==
  IF voxels = <<>> THEN Value(<<>>)
  ELSE LET corner == vox_corner(pts, res, voxels[1])
           ipts == select(pts, corner, res)
           mid == <<corner[1] + res \div 2, corner[2] + res \div 2,
                    corner[3] + res \div 2>>
           dist == MkSeq(Len(ipts), LAMBDA i : dist2(ipts[i], mid))
           rest == decimate_loop(pts, res, Tail(voxels))
       IN  IF ipts = <<>> THEN Raise("ValueError")
           ELSE IF rest.exc # "none" THEN rest
           ELSE Value(<<ipts[argmin(dist)]>> \o rest.val)

decimate_points(pts, res) ==
  decimate_loop(pts, res, nonzero(occupied(pts, res)))

(***************************************************************************)
(* Control flow and the objects shared with the caller.                    *)
(***************************************************************************)
\* leastsq called whatever the checks before it gave
reaches_leastsq_always(prep) == TRUE

\* lines 351 and 576 are reached when none of the checks and none of the
\* branches before them has raised
reaches_leastsq(prep) == prep.exc = "none"

\* the dict updated in place with the entries of kwargs
FpcLeastsqArgsUpdated(leastsq_args) ==
  dict_update(leastsq_args, [k \in {"epsfcn"} |-> 1])

\* lines 515-516: the dict bound to leastsq_args after the call; update()
\* writes to kwargs, a new dict, and only reads leastsq_args
FpcLeastsqArgsAfter(leastsq_args) == leastsq_args

\* lines 299-310 and 519-526: the caller's arrays and x0 after the call;
\* atleast_2d, hstack and 'x0 or ...' build new objects and rebind the
\* local names
FitArgsAfter(src_pts, tgt_pts, x0, translate) ==
  [src_pts |-> src_pts, tgt_pts |-> tgt_pts, x0 |-> x0]

\* lines 181-210: pts is only read
DecArgsAfter(pts) == [pts |-> pts]

\* lines 399-401: asarray and the arithmetic build new arrays
RasArgsAfter(nasion, lpa, rpa) == [nasion |-> nasion, lpa |-> lpa, rpa |-> rpa]

\* no argument object and no kwargs: outside a call
NoMem == [args |-> <<>>, kwargs |-> <<>>]

(***************************************************************************)
(* Inputs of the model.                                                    *)
(***************************************************************************)
SrcArrays ==
  { Array2(<< <<1, 0, 0>>, <<0, 1, 0>> >>),
    Array2(<< <<1, 0, 0>>, <<0, 2, 0>>, <<0, 0, 1>> >>),
    Array1(<<1, 2, 0>>) }

\* the image of one point under rotation by the angles a, scaling by s and
\* translation by t
MovePoint(p, a, t, s) ==
  LET q == dot(<<p>>, transpose(rotation3d(a[1], a[2], a[3])))[1]
  IN  <<s * q[1] + t[1], s * q[2] + t[2], s * q[3] + t[3]>>

\* an array with every point moved
Moved(arr, a, t, s) ==
  IF arr.ndim = 1 THEN Array1(MovePoint(arr.data, a, t, s))
  ELSE Array2(MkSeq(Len(arr.data), LAMBDA i : MovePoint(arr.data[i], a, t, s)))

\* the known moves: angles, translation, scale
KnownMoves ==
  { <<<<0, 0, 0>>, <<0, 0, 0>>, 1>>,
    <<<<0, 0, 2>>, <<0, 0, 0>>, 1>>,
    <<<<1, 0, 1>>, <<1, 0, 0>>, 1>>,
    <<<<0, 1, 0>>, <<0, 0, 0>>, 2>>,
    <<<<0, 0, 1>>, <<0, 1, 0>>, 2>> }

\* an array with its last point pushed away along z
Perturbed(arr) ==
  IF arr.ndim = 1 THEN Array1(MovePoint(arr.data, <<0, 0, 0>>, <<0, 0, 2>>, 1))
  ELSE Array2(MkSeq(Len(arr.data), LAMBDA i :
                 IF i = Len(arr.data)
                   THEN MovePoint(arr.data[i], <<0, 0, 0>>, <<0, 0, 2>>, 1)
                   ELSE arr.data[i]))

TgtArrays(src) ==
  {Moved(src, m[1], m[2], m[3]) : m \in KnownMoves}
    \cup {Perturbed(src), atleast_2d(src)} \cup SrcArrays
    \cup {Array2(<< <<1, 0>>, <<0, 1>> >>)}

\* point clouds: six points, three points, a single point
CloudSrcArrays ==
  { Array2(<< <<1, 0, 0>>, <<0, 1, 0>>, <<0, 0, 1>>,
              <<2, 0, 0>>, <<0, 2, 0>>, <<1, 1, 0>> >>),
    Array2(<< <<1, 0, 0>>, <<0, 2, 0>>, <<0, 0, 1>> >>),
    Array1(<<1, 2, 0>>) }

CloudTgtArrays ==
  { Array2(<< <<0, 1, 0>>, <<0 - 1, 0, 0>>, <<0, 0, 1>>, <<0 - 2, 0, 0>> >>),
    Array2(<< <<2, 0, 1>>, <<1, 2, 0>> >>),
    Array1(<<1, 2, 0>>) }

CloudScaleArgs == {PyInt(0), PyInt(1), PyInt(2), PyInt(3)}

\* the points to decimate: in the plane z = 0
DecPoints == {<<x, y, 0>> : x \in 0..MaxCoord, y \in 0..1}

RECURSIVE SeqsUpTo(_, _)
SeqsUpTo(S, n) ==
  IF n = 0 THEN {<<>>}
  ELSE LET shorter == SeqsUpTo(S, n - 1)
       IN  shorter \cup {Append(q, e) : q \in {r \in shorter : Len(r) = n - 1},
                                          e \in S}

DecInputs == SeqsUpTo(DecPoints, MaxPts) \ {<<>>}

ResArgs == {2, 4}

\* the scenario {(0,0,0), (0.1,0,0), (5,5,5)} with res = 1, in units of 0.1
ScenarioPts == << <<0, 0, 0>>, <<1, 0, 0>>, <<50, 50, 50>> >>

ScenarioRes == 10

\* in the same units: (0,0.4,0), (0.3,0,0), (0.6,0,0); the point that sets
\* the minimum along x is not the one nearest to the centre of its voxel
ShiftedPts == << <<0, 4, 0>>, <<3, 0, 0>>, <<6, 0, 0>> >>

\* the calls of _decimate_points: points and res
DecCalls ==
  (DecInputs \X ResArgs)
    \cup {<<ScenarioPts, ScenarioRes>>, <<ShiftedPts, ScenarioRes>>}

RotateArgs == {PyBool(TRUE), PyBool(FALSE)}

TranslateArgs == {PyBool(TRUE), PyInt(0)}

ScaleArgs == {PyBool(FALSE), PyBool(TRUE), PyInt(2), PyInt(3)}

TolArgs == {None, Some(0), Some(1)}

OutArgs == {"params", "trans", "matrix"}

\* scale parameters that are zero or negative
DegenerateScales(do_scale) ==
  CASE do_scale = 1 -> {<<0>>, <<0 - 1>>}
    [] do_scale = 3 -> {<<0, 1, 1>>, <<1, 1, 0>>, <<0 - 1, 1, 2>>}
    [] OTHER -> {}

\* the parameter vectors of the direct calls of _trans_from_params
TfpParams(param_info) ==
  ParamGrid(param_info)
    \cup {a \o t \o sc :
            a \in (IF param_info[1] THEN AngleTriples ELSE {<<>>}),
            t \in (IF param_info[2] THEN ShiftTriples ELSE {<<>>}),
            sc \in DegenerateScales(param_info[3])}

\* landmark positions: in the plane z = 0
LandmarkVecs == {<<x, y, 0>> : x \in (0 - 1)..1, y \in (0 - 1)..1}

\* lpa and rpa differ along one axis, and the nasion lies off their line
\* along another axis: the norms are integers and the unit vectors too
AxisParallel(v) == Cardinality({j \in 1..3 : v[j] # 0}) = 1

LandmarkTriples ==
  {l \in LandmarkVecs \X LandmarkVecs \X LandmarkVecs :
     /\ AxisParallel(vminus(l[3], l[2]))
     /\ LET right == vminus(l[3], l[2])
            right_unit == divided(right, norm(right))
        IN  AxisParallel(vminus(l[1], ras_origin(l[1], l[2], right_unit)))}

\* arrays that are no landmark: too short, two-dimensional, a scalar
BadLandmarks ==
  {Array1(<<1, 0>>), Array2(<< <<0, 1, 0>> >>), Array0(1)}

\* the arguments (nasion, lpa, rpa) of get_ras_to_neuromag_trans: well
\* formed, or with some landmarks replaced by an array that is none
LandmarkArgs ==
  LET good == {<<Array1(l[1]), Array1(l[2]), Array1(l[3])>> :
                 l \in LandmarkTriples}
      some == {<<Array1(<<0, 1, 0>>), Array1(<<0 - 1, 0, 0>>),
                 Array1(<<1, 0, 0>>)>>,
               <<Array1(<<1, 1, 0>>), Array1(<<0, 0, 0>>),
                 Array1(<<0, 0, 0>>)>>}
  IN  good \cup {[g EXCEPT ![k] = b] : g \in some, k \in 1..3,
                                          b \in BadLandmarks}
           \cup {<<b, c, g[3]>> : g \in some, b \in BadLandmarks,
                                  c \in BadLandmarks}

\* leastsq_args: left out, so that the default {} of the function is used,
\* or a budget of one call of the closure
LeastsqArgs == {None, Some([k \in {"maxfev"} |-> 1])}

\* initial guesses: the default, a quarter turn about x, a vector too short
X0Args(param_info) ==
  {None, Some(<<0, 0>>)} \cup
    (IF FmpSupported(param_info)
       THEN {Some(<<1>> \o Tail(FmpDefaultX0(param_info)))} ELSE {})

(***************************************************************************)
(* State machine.                                                          *)
(***************************************************************************)
Idle == [fn |-> "idle"]

\* defaults is the dict that the default of leastsq_args is bound to, made
\* once when fit_point_cloud is defined (line 473)
Init ==
  /\ call = Idle
  /\ ret = Value(<<>>)
  /\ lsq = <<>>
  /\ called = FALSE
  /\ defaults = EmptyDict
  /\ mem = NoMem

\* a call of _trans_from_params(param_info, params); params has the length
\* of the descriptor's layout, or one entry less
CallTransFromParams ==
  /\ call.fn = "idle"
  /\ \E param_info \in Descriptors :
       \E p \in TfpParams(<<param_info[1], param_info[2],
                            IF param_info[3] = 2 THEN 1 ELSE param_info[3]>>) :
         \E params \in {p, PySlice(p, 0, Len(p) - 1)} :
           /\ call' = [fn |-> "_trans_from_params", param_info |-> param_info,
                       params |-> params]
           /\ ret' = trans_from_params(param_info, params)
           /\ lsq' = <<>>
           /\ called' = FALSE
           /\ mem' = [args |-> [params |-> params], kwargs |-> <<>>]
           /\ UNCHANGED defaults

\* a call of fit_matched_points
CallFitMatchedPoints ==
  /\ call.fn = "idle"
  /\ \E src_pts \in SrcArrays, rotate \in RotateArgs,
        translate \in TranslateArgs, scale \in ScaleArgs :
       \E tgt_pts \in TgtArrays(src_pts),
          x0 \in X0Args(<<bool(rotate), bool(translate), int(scale)>>) :
         \E prep \in {FmpPrepare(src_pts, tgt_pts, rotate, translate, scale)} :
           \E sol \in {IF prep.exc = "none" THEN FmpSolve(prep.val, x0)
                       ELSE prep} :
             \E tol \in TolArgs, out \in OutArgs :
               /\ call' = [fn |-> "fit_matched_points", src_pts |-> src_pts,
                           tgt_pts |-> tgt_pts, rotate |-> rotate,
                           translate |-> translate, scale |-> scale,
                           tol |-> tol, x0 |-> x0, out |-> out]
               /\ called' = reaches_leastsq(prep)
               /\ mem' = [args |-> FitArgsAfter(src_pts, tgt_pts, x0,
                                                bool(translate)),
                          kwargs |-> <<>>]
               /\ UNCHANGED defaults
               /\ IF prep.exc # "none" THEN ret' = prep /\ lsq' = <<>>
                  ELSE IF sol.exc # "none" THEN ret' = sol /\ lsq' = <<>>
                  ELSE \E xi \in sol.val :
                         /\ lsq' = xi
                         /\ ret' = FmpFinish(prep.val.param_info, prep.val.src,
                                             prep.val.tgt, tol, out, xi[1])

\* a call of fit_point_cloud; sklearn says whether sklearn.neighbors can
\* be imported
CallFitPointCloud ==
  /\ call.fn = "idle"
  /\ \E src_pts \in CloudSrcArrays, tgt_pts \in CloudTgtArrays,
        rotate \in RotateArgs, translate \in TranslateArgs,
        scale \in CloudScaleArgs, sklearn \in BOOLEAN :
       \E x0 \in {None, Some(<<>>), Some(<<0, 0>>)},
          leastsq_args \in LeastsqArgs,
          prep \in {FpcPrepare(src_pts, tgt_pts, rotate, translate, scale)} :
         LET bound == IF leastsq_args = None THEN defaults
                      ELSE leastsq_args[1]
             kwargs == FpcKwargs(bound)
             after == FpcLeastsqArgsAfter(bound)
         IN  \E sol \in {IF prep.exc = "none"
                           THEN FpcSolve(prep.val, sklearn, x0, kwargs)
                           ELSE prep},
                out \in OutArgs :
               /\ call' = [fn |-> "fit_point_cloud", src_pts |-> src_pts,
                           tgt_pts |-> tgt_pts, rotate |-> rotate,
                           translate |-> translate, scale |-> scale,
                           x0 |-> x0, leastsq_args |-> leastsq_args,
                           out |-> out, sklearn |-> sklearn]
               /\ called' = reaches_leastsq(prep)
               /\ defaults' = IF leastsq_args = None THEN after ELSE defaults
               /\ mem' = [args |->
                            FitArgsAfter(src_pts, tgt_pts, x0, bool(translate))
                              @@ [k \in {"leastsq_args"} |->
                                    IF leastsq_args = None THEN None
                                    ELSE Some(after)],
                          kwargs |-> kwargs]
               /\ IF prep.exc # "none" THEN ret' = prep /\ lsq' = <<>>
                  ELSE IF sol.exc # "none" THEN ret' = sol /\ lsq' = <<>>
                  ELSE \E xi \in sol.val :
                         /\ lsq' = xi
                         /\ ret' = FpcFinish(prep.val.param_info, out, xi[1])

\* a call of _decimate_points
CallDecimatePoints ==
  /\ call.fn = "idle"
  /\ \E c \in DecCalls :
       /\ call' = [fn |-> "_decimate_points", pts |-> c[1], res |-> c[2]]
       /\ ret' = decimate_points(c[1], c[2])
       /\ lsq' = <<>>
       /\ called' = FALSE
       /\ mem' = [args |-> DecArgsAfter(c[1]), kwargs |-> <<>>]
       /\ UNCHANGED defaults

\* a call of get_ras_to_neuromag_trans
CallGetRasToNeuromagTrans ==
  /\ call.fn = "idle"
  /\ \E a \in LandmarkArgs :
       /\ call' = [fn |-> "get_ras_to_neuromag_trans", nasion |-> a[1],
                   lpa |-> a[2], rpa |-> a[3]]
       /\ ret' = get_ras_to_neuromag_trans(a[1], a[2], a[3])
       /\ lsq' = <<>>
       /\ called' = FALSE
       /\ mem' = [args |-> RasArgsAfter(a[1], a[2], a[3]), kwargs |-> <<>>]
       /\ UNCHANGED defaults

Return ==
  /\ call.fn # "idle"
  /\ call' = Idle
  /\ ret' = Value(<<>>)
  /\ lsq' = <<>>
  /\ called' = FALSE
  /\ mem' = NoMem
  /\ UNCHANGED defaults

Next ==
  \/ CallTransFromParams
  \/ CallFitMatchedPoints
  \/ CallFitPointCloud
  \/ CallDecimatePoints
  \/ CallGetRasToNeuromagTrans
  \/ Return

Spec == Init /\ [][Next]_vars

(***************************************************************************)
(* Properties.                                                             *)
(***************************************************************************)
IsTfp == call.fn = "_trans_from_params"

IsFmp == call.fn = "fit_matched_points"

IsFpc == call.fn = "fit_point_cloud"

IsDec == call.fn = "_decimate_points"

IsRas == call.fn = "get_ras_to_neuromag_trans"

\* the descriptor of a fitter call after bool() and int()
CallInfo == <<bool(call.rotate), bool(call.translate), int(call.scale)>>

\* the point arrays of a fitter call as 2-D arrays
CallSrc == atleast_2d(call.src_pts)

CallTgt == atleast_2d(call.tgt_pts)

\* the image of the point p under the 4x4 matrix M: M . (p, 1)
ApplyPoint(M, p) ==
  <<M[1][1] * p[1] + M[1][2] * p[2] + M[1][3] * p[3] + M[1][4],
    M[2][1] * p[1] + M[2][2] * p[2] + M[2][3] * p[3] + M[2][4],
    M[3][1] * p[1] + M[3][2] * p[2] + M[3][3] * p[3] + M[3][4]>>

\* the three factors read from the positions of the parameter layout:
\* rotation at 0..2, translation at the next three positions that follow
\* an active rotation, scale after those
LayoutLen(info) ==
  (IF info[1] THEN 3 ELSE 0) + (IF info[2] THEN 3 ELSE 0) + info[3]

LayoutRotate(info, p) == rotation(p[1], p[2], p[3])

LayoutTranslate(info, p) ==
  LET o == IF info[1] THEN 3 ELSE 0
  IN  translation(p[o + 1], p[o + 2], p[o + 3])

LayoutScale(info, p) ==
  LET o == (IF info[1] THEN 3 ELSE 0) + (IF info[2] THEN 3 ELSE 0)
  IN  IF info[3] = 1 THEN scaling(p[o + 1], p[o + 1], p[o + 1])
      ELSE scaling(p[o + 1], p[o + 2], p[o + 3])

\* C1 (as claimed): _trans_from_params returns scale_matrix . translate_matrix
\* . rotate_matrix, and with fewer active components the product of the
\* remaining factors in that same order
C1_ScaleTranslateRotate ==
  (IsTfp /\ ret.exc = "none" /\ Len(call.params) = LayoutLen(call.param_info))
    => ret.val = FoldDot(
         (IF call.param_info[3] \in {1, 3}
            THEN <<LayoutScale(call.param_info, call.params)>> ELSE <<>>)
         \o (IF call.param_info[2]
               THEN <<LayoutTranslate(call.param_info, call.params)>> ELSE <<>>)
         \o (IF call.param_info[1]
               THEN <<LayoutRotate(call.param_info, call.params)>> ELSE <<>>))

FmpFour ==
  {<<TRUE, FALSE, 0>>, <<TRUE, FALSE, 1>>, <<TRUE, TRUE, 0>>, <<TRUE, TRUE, 1>>}

\* C2: with equal shapes, fit_matched_points raises NotImplementedError,
\* naming rotate, translate and scale, exactly when the coerced descriptor
\* is none of (T,F,0), (T,F,1), (T,T,0), (T,T,1); it then returns nothing
C2_FmpAcceptsFour ==
  (IsFmp /\ shape(CallSrc) = shape(CallTgt))
    => /\ (CallInfo \notin FmpFour) <=> (ret.exc = "NotImplementedError")
       /\ (CallInfo \notin FmpFour)
            => /\ ret.msg = <<"not implemented", CallInfo[1], CallInfo[2],
                              CallInfo[3]>>
               /\ ret.val = <<>>
               /\ lsq = <<>>

\* the spec's example: rotate=False, translate=True, scale=3 is refused
C2_Witness ==
  /\ IsFmp
  /\ shape(CallSrc) = shape(CallTgt)
  /\ CallInfo = <<FALSE, TRUE, 3>>
  /\ ret.exc = "NotImplementedError"

FpcFour ==
  {<<TRUE, FALSE, 0>>, <<TRUE, FALSE, 1>>, <<TRUE, FALSE, 3>>, <<TRUE, TRUE, 0>>}

\* C3: fit_point_cloud raises NotImplementedError, naming the combination,
\* exactly when the coerced descriptor is none of (T,F,0), (T,F,1), (T,F,3),
\* (T,T,0), with either nearest-neighbour implementation
C3_FpcAcceptsFour ==
  IsFpc
    => /\ (CallInfo \notin FpcFour) <=> (ret.exc = "NotImplementedError")
       /\ (CallInfo \notin FpcFour)
            => /\ ret.msg = <<"not implemented", CallInfo[1], CallInfo[2],
                              CallInfo[3]>>
               /\ ret.val = <<>>
               /\ lsq = <<>>

\* rotate + translate + scale(1) is refused with the ball tree selected
C3_Witness ==
  /\ IsFpc
  /\ call.sklearn
  /\ CallInfo = <<TRUE, TRUE, 1>>
  /\ ret.exc = "NotImplementedError"

\* C4: whenever the promoted source and target differ in shape,
\* fit_matched_points raises the shape ValueError, whatever the other
\* arguments, and neither calls the solver nor returns a value
C4_ShapeMismatchRaises ==
  (IsFmp /\ shape(CallSrc) # shape(CallTgt))
    => /\ ret.exc = "ValueError"
       /\ ret.msg = <<"must have same shape", shape(CallSrc), shape(CallTgt)>>
       /\ ret.val = <<>>
       /\ lsq = <<>>

\* a mismatch of the second dimension only, with an unsupported descriptor
C4_Witness ==
  /\ IsFmp
  /\ shape(CallSrc) = <<2, 3>>
  /\ shape(CallTgt) = <<2, 2>>
  /\ CallInfo \notin FmpFour
  /\ call.tol # None
  /\ ret.exc = "ValueError"

\* some matched pair lies farther than tol from the image of its source
\* point under the fitted transform
SomeResidualExceeds(tol) ==
  LET M == trans_from_params(CallInfo, lsq[1]).val
  IN  \E i \in 1..Len(CallSrc.data) :
        \/ tol < 0
        \/ dist2(ApplyPoint(M, CallSrc.data[i]), CallTgt.data[i]) > tol * tol

\* C5: once the solver has returned, with tol given the call raises
\* RuntimeError (carrying the residuals) iff some residual is strictly
\* greater than tol; with tol None it never does and a valid out returns
C5_ToleranceGate ==
  (IsFmp /\ lsq # <<>>)
    => /\ call.tol # None
            => /\ (ret.exc = "RuntimeError") <=> SomeResidualExceeds(call.tol[1])
               /\ ret.exc = "RuntimeError"
                    => /\ ret.msg[1] = "Error exceeds tolerance"
                       /\ Len(ret.msg[2]) = Len(CallSrc.data)
       /\ call.tol = None
            => /\ ret.exc # "RuntimeError"
               /\ call.out \in {"params", "trans"} => ret.exc = "none"

\* the gate fires without translation, on a target with one point pushed away
C5_Witness ==
  /\ IsFmp
  /\ lsq # <<>>
  /\ ~bool(call.translate)
  /\ call.tgt_pts = Perturbed(call.src_pts)
  /\ call.tol = Some(1)
  /\ ret.exc = "RuntimeError"

\* the target of the call is the source moved by a known rotation,
\* translation and scale that the descriptor can express
KnownTarget ==
  \E m \in KnownMoves :
    /\ CallInfo[2] \/ m[2] = <<0, 0, 0>>
    /\ CallInfo[3] = 1 \/ m[3] = 1
    /\ call.tgt_pts = Moved(call.src_pts, m[1], m[2], m[3])

\* the returned matrix carries every source point onto its target point
MapsSrcOntoTgt ==
  /\ ret.exc = "none"
  /\ \A i \in 1..Len(CallSrc.data) :
       ApplyPoint(ret.val, CallSrc.data[i]) = CallTgt.data[i]

ZeroResidual ==
  LET src == IF CallInfo[2] THEN hstack_ones(CallSrc.data) ELSE CallSrc.data
  IN  SumSquares(FmpError(CallInfo, src, CallTgt.data, lsq[1])) = 0

C7_BottomRow ==
  /\ (IsTfp /\ ret.exc = "none") => ret.val[4] = <<0, 0, 0, 1>>
  /\ ((IsFmp \/ IsFpc) /\ call.out = "trans" /\ ret.exc = "none")
       => ret.val[4] = <<0, 0, 0, 1>>

\* a matrix composed of all three factors with a scale other than 1
C7_Witness ==
  /\ IsTfp
  /\ call.param_info = <<TRUE, TRUE, 1>>
  /\ Len(call.params) = 7
  /\ call.params[7] = 2
  /\ ret.exc = "none"
  /\ ret.val[4] = <<0, 0, 0, 1>>

C9_UnsupportedDescriptorRaises ==
  (IsTfp /\ (call.param_info = <<FALSE, FALSE, 0>>
               \/ call.param_info[3] \notin {0, 1, 3}))
    => /\ ret.exc = "NotImplementedError"
       /\ ret.msg = <<"not implemented", call.param_info[1],
                      call.param_info[2], call.param_info[3]>>

\* the voxel of a point: its bin of the grid on every axis
Voxel(p) ==
  <<hist_bin(bin_edges(call.pts, call.res, 1), p[1]),
    hist_bin(bin_edges(call.pts, call.res, 2), p[2]),
    hist_bin(bin_edges(call.pts, call.res, 3), p[3])>>

\* the squared distance of a point to the centre of its voxel: the corner
\* plus res / 2 on each axis
ToCentre2(p) ==
  LET c == vox_corner(call.pts, call.res, Voxel(p))
  IN  dist2(p, <<c[1] + call.res \div 2, c[2] + call.res \div 2,
                 c[3] + call.res \div 2>>)

\* C10 (as claimed): _decimate_points returns one input point for every
\* non-empty voxel, no two from the same voxel, each nearest to the centre
\* of its voxel among the input points of that voxel
C10_OnePointPerVoxel ==
  IsDec
    => /\ ret.exc = "none"
       /\ \A i \in 1..Len(ret.val) :
            /\ \E k \in 1..Len(call.pts) : call.pts[k] = ret.val[i]
            /\ \A k \in 1..Len(call.pts) :
                 Voxel(call.pts[k]) = Voxel(ret.val[i])
                   => ToCentre2(ret.val[i]) <= ToCentre2(call.pts[k])
            /\ \A k \in 1..Len(ret.val) :
                 Voxel(ret.val[k]) = Voxel(ret.val[i]) => k = i
       /\ \A k \in 1..Len(call.pts) :
            \E i \in 1..Len(ret.val) : Voxel(ret.val[i]) = Voxel(call.pts[k])

\* the set of the points of a sequence
Points(seq) == {seq[i] : i \in 1..Len(seq)}

\* C11 (as claimed): decimating the result of _decimate_points again with
\* the same res returns the same set of points
C11_Idempotent ==
  (IsDec /\ ret.exc = "none")
    => LET again == decimate_points(ret.val, call.res)
       IN  /\ again.exc = "none"
           /\ Points(again.val) = Points(ret.val)

\* the cells of the grid: a bin on every axis
GridCells ==
  (1..(Len(bin_edges(call.pts, call.res, 1)) - 1))
    \X (1..(Len(bin_edges(call.pts, call.res, 2)) - 1))
    \X (1..(Len(bin_edges(call.pts, call.res, 3)) - 1))

\* the point p passes the half-open test of the cell v on every axis
InCell(p, v) ==
  LET corner == vox_corner(call.pts, call.res, v)
  IN  \A j \in 1..3 : p[j] >= corner[j] /\ p[j] < corner[j] + call.res

\* C12 (as claimed): every voxel the histogram counts as non-empty holds an
\* input point under the half-open test of the selection, and every input
\* point passes that test for some cell of the grid
C12_GridCoverage ==
  IsDec
    => /\ \A v \in occupied(call.pts, call.res) :
            \E k \in 1..Len(call.pts) : InCell(call.pts[k], v)
       /\ \A k \in 1..Len(call.pts) :
            \E v \in GridCells : InCell(call.pts[k], v)

\* C13: _decimate_points of a single point returns exactly that point, the
\* grid having one cell on every axis with the point at its centre
C13_SinglePoint ==
  (IsDec /\ Len(call.pts) = 1)
    => /\ ret = Value(call.pts)
       /\ GridCells = {<<1, 1, 1>>}
       /\ ToCentre2(call.pts[1]) = 0

\* a single point away from the origin, with the coarser res
C13_Witness ==
  /\ IsDec
  /\ call.pts = << <<MaxCoord, 1, 0>> >>
  /\ call.res = 4
  /\ ret = Value(call.pts)

\* C14: the points {(0,0,0), (0.1,0,0), (5,5,5)} with res = 1 give exactly
\* two points, one of the cluster {(0,0,0), (0.1,0,0)} and the point (5,5,5)
C14_Scenario ==
  (IsDec /\ call.pts = ScenarioPts /\ call.res = ScenarioRes)
    => /\ ret.exc = "none"
       /\ Len(ret.val) = 2
       /\ \E i \in 1..2 : ret.val[i] \in {ScenarioPts[1], ScenarioPts[2]}
       /\ \E i \in 1..2 : ret.val[i] = ScenarioPts[3]

\* the scenario has been decimated to two points
C14_Witness ==
  /\ IsDec
  /\ call.pts = ScenarioPts
  /\ call.res = ScenarioRes
  /\ Len(ret.val) = 2
  /\ ret.val[2] = <<50, 50, 50>>

\* the arrays and the descriptor a call of fit_point_cloud works on
CallPrep ==
  FpcPrepare(call.src_pts, call.tgt_pts, call.rotate, call.translate,
             call.scale)

\* the source points of the call moved by the closure's matrix for x
CallEst(x) ==
  first3(dot(CallPrep.val.src, transpose(FpcClosureTrans(CallInfo, x))))

\* err holds, for every point of est, the least squared distance to a point
\* of tgt
IsNearest(err, est, tgt) ==
  /\ Len(err) = Len(est)
  /\ \A i \in 1..Len(est) :
       /\ err[i] >= 0
       /\ \E j \in 1..Len(tgt) : err[i] = dist2(est[i], tgt[j])
       /\ \A j \in 1..Len(tgt) : err[i] <= dist2(est[i], tgt[j])

IsLandmark(pt) == pt.ndim = 1 /\ Len(pt.data) = 3

\* C16: whenever one of nasion, lpa, rpa is not a one-dimensional vector of
\* length 3, whatever the other two, get_ras_to_neuromag_trans raises the
\* ValueError of its own check and returns nothing
C16_LandmarkShapeRaises ==
  (IsRas /\ ~(IsLandmark(call.nasion) /\ IsLandmark(call.lpa)
                /\ IsLandmark(call.rpa)))
    => /\ ret.exc = "ValueError"
       /\ ret.msg = <<"Points have to be provided as one dimensional arrays of length 3.">>
       /\ ret.val = <<>>

\* only the last landmark checked, rpa, is malformed
C16_Witness ==
  /\ IsRas
  /\ IsLandmark(call.nasion)
  /\ IsLandmark(call.lpa)
  /\ call.rpa = Array1(<<1, 0>>)
  /\ ret.exc = "ValueError"

\* the landmarks of the scenario
IsRasScenario ==
  /\ IsRas
  /\ call.nasion = Array1(<<0, 1, 0>>)
  /\ call.lpa = Array1(<<0 - 1, 0, 0>>)
  /\ call.rpa = Array1(<<1, 0, 0>>)

\* C17: for nasion (0,1,0), lpa (-1,0,0), rpa (1,0,0) the result maps
\* (1,0,0) to (1,0,0), has the translation (0,0,0), and is the identity
C17_AlignedLandmarks ==
  IsRasScenario
    => /\ ret.exc = "none"
       /\ <<ret.val[1][1], ret.val[2][1], ret.val[3][1]>> = <<1, 0, 0>>
       /\ <<ret.val[1][4], ret.val[2][4], ret.val[3][4]>> = <<0, 0, 0>>
       /\ ret.val = <<<<1, 0, 0, 0>>, <<0, 1, 0, 0>>, <<0, 0, 1, 0>>,
                      <<0, 0, 0, 1>>>>

\* the scenario has returned a matrix
C17_Witness ==
  /\ IsRasScenario
  /\ ret.exc = "none"
  /\ Len(ret.val) = 4

\* C18 (as claimed): every matrix returned by _trans_from_params, or by a
\* fitter in 'trans' mode, is invertible
C18_Invertible ==
  ((IsTfp \/ ((IsFmp \/ IsFpc) /\ call.out = "trans")) /\ ret.exc = "none")
    => Det(ret.val) # 0

\* C19 (as claimed): whenever leastsq reports that it found no solution
\* (ier outside 1..4), the fitter raises instead of returning
C19_NoSilentDegradedReturn ==
  ((IsFmp \/ IsFpc) /\ lsq # <<>> /\ lsq[2] \notin 1..4)
    => ret.exc # "none"

\* the result of lines 366-373 and 580-587 for the solver's x
OutputOf(out, x) ==
  IF out = "params" THEN Value(x)
  ELSE IF out = "trans" THEN trans_from_params(CallInfo, x)
  ELSE RaiseMsg("ValueError", <<"Invalid out parameter", out>>)

\* C20: once the solver has returned (and, in fit_matched_points, the
\* tolerance gate has not fired), out='params' returns the solver's x,
\* out='trans' returns _trans_from_params(descriptor, x), any other out
\* raises ValueError without a value; and whether the gate of
\* fit_matched_points fires is the same for every out
C20_OutputMode ==
  /\ (IsFpc /\ lsq # <<>>) => ret = OutputOf(call.out, lsq[1])
  /\ (IsFmp /\ lsq # <<>>)
       => LET prep == FmpPrepare(call.src_pts, call.tgt_pts, call.rotate,
                                 call.translate, call.scale).val
              fires(o) == FmpFinish(CallInfo, prep.src, prep.tgt, call.tol,
                                    o, lsq[1]).exc = "RuntimeError"
          IN  /\ \A o \in OutArgs : fires(o) <=> (ret.exc = "RuntimeError")
              /\ ret.exc # "RuntimeError" => ret = OutputOf(call.out, lsq[1])

\* an invalid out with the gate firing, and with the gate silent
C20_Witness ==
  /\ IsFmp
  /\ lsq # <<>>
  /\ call.out = "matrix"
  /\ call.tol = Some(0)
  /\ ret.exc = "RuntimeError"

\* C21: in fit_matched_points a shape mismatch raises the shape ValueError,
\* also when the combination is unsupported as well, an unsupported
\* combination with equal shapes raises NotImplementedError, and in neither
\* case is leastsq called; in fit_point_cloud an unsupported combination
\* raises NotImplementedError and leastsq is not called; leastsq is called
\* in every other call of a fitter
C21_PreconditionsFirst ==
  /\ (IsFmp /\ shape(CallSrc) # shape(CallTgt))
       => /\ ret.exc = "ValueError"
          /\ ret.msg[1] = "must have same shape"
          /\ ~called
          /\ lsq = <<>>
  /\ (IsFmp /\ shape(CallSrc) = shape(CallTgt) /\ CallInfo \notin FmpFour)
       => ret.exc = "NotImplementedError" /\ ~called /\ lsq = <<>>
  /\ (IsFmp /\ shape(CallSrc) = shape(CallTgt) /\ CallInfo \in FmpFour)
       => called
  /\ (IsFpc /\ CallInfo \notin FpcFour)
       => ret.exc = "NotImplementedError" /\ ~called /\ lsq = <<>>
  /\ (IsFpc /\ CallInfo \in FpcFour) => called

\* a call that violates both preconditions: unequal lengths and scale=3
C21_Witness ==
  /\ IsFmp
  /\ shape(CallSrc) = <<1, 3>>
  /\ shape(CallTgt) = <<2, 3>>
  /\ CallInfo = <<TRUE, TRUE, 3>>
  /\ ret.exc = "ValueError"
  /\ ~called

\* the options a call of fit_point_cloud passes itself
OwnOptions == IF call.leastsq_args = None THEN EmptyDict
              ELSE call.leastsq_args[1]

\* C22: after every sequence of calls the default dict of leastsq_args is
\* still {}; a call leaves the caller's point arrays, x0 and leastsq_args
\* as they were passed; and the kwargs of fit_point_cloud are
\* {'epsfcn': 0.01} overridden by that call's own options only
C22_NoMutation ==
  /\ defaults = EmptyDict
  /\ IsFmp => mem.args = [src_pts |-> call.src_pts, tgt_pts |-> call.tgt_pts,
                          x0 |-> call.x0]
  /\ IsFpc => /\ mem.args = [src_pts |-> call.src_pts,
                             tgt_pts |-> call.tgt_pts, x0 |-> call.x0,
                             leastsq_args |-> call.leastsq_args]
              /\ mem.kwargs = dict_update([k \in {"epsfcn"} |-> 1], OwnOptions)
  /\ IsDec => mem.args = [pts |-> call.pts]
  /\ IsRas => mem.args = [nasion |-> call.nasion, lpa |-> call.lpa,
                          rpa |-> call.rpa]

\* a fit with translation (the source points are augmented) that uses the
\* default leastsq_args and has run the solver
C22_Witness ==
  /\ IsFpc
  /\ call.leastsq_args = None
  /\ CallInfo = <<TRUE, TRUE, 0>>
  /\ called
  /\ lsq # <<>>
  /\ mem.kwargs = [k \in {"epsfcn"} |-> 1]
  /\ mem.args.src_pts = call.src_pts
  /\ defaults = EmptyDict

\* a 3x3 matrix as the 4x4 matrix of the same linear map
AsAffine(M) == IF Len(M) = 3 THEN Homogeneous(M) ELSE M

\* a direct call of _trans_from_params with a complete parameter vector
IsTfpComplete ==
  /\ IsTfp
  /\ ret.exc = "none"
  /\ Len(call.params) = LayoutLen(call.param_info)

\* C23: for every supported descriptor of either fitter and every parameter
\* vector x, the matrix the residual closure builds is the same map as
\* _trans_from_params(descriptor, x); so the matrix a fitter returns in
\* 'trans' mode is the closure's matrix at the solver's x, and the errors
\* the tolerance gate reports are the closure's residuals
C23_ClosureIsReturnedTrans ==
  /\ (IsTfpComplete /\ call.param_info \in FmpFour)
       => ret.val = AsAffine(FmpClosureTrans(call.param_info, call.params))
  /\ (IsTfpComplete /\ call.param_info \in FpcFour)
       => ret.val = AsAffine(FpcClosureTrans(call.param_info, call.params))
  /\ (IsFmp /\ lsq # <<>> /\ call.out = "trans" /\ ret.exc = "none")
       => ret.val = AsAffine(FmpClosureTrans(CallInfo, lsq[1]))
  /\ (IsFpc /\ lsq # <<>> /\ call.out = "trans" /\ ret.exc = "none")
       => ret.val = AsAffine(FpcClosureTrans(CallInfo, lsq[1]))
  /\ (IsFmp /\ lsq # <<>> /\ ret.exc = "RuntimeError")
       => ret.msg[2] =
            sumsq_rows(FmpError(CallInfo,
                                IF CallInfo[2] THEN hstack_ones(CallSrc.data)
                                ELSE CallSrc.data,
                                CallTgt.data, lsq[1]))

\* a matrix with a separate scale along each axis, the scales not all equal
C23_Witness ==
  /\ IsTfpComplete
  /\ call.param_info = <<TRUE, FALSE, 3>>
  /\ call.params[3] = 1
  /\ call.params[4] # call.params[6]
  /\ ret.val = AsAffine(FpcClosureTrans(call.param_info, call.params))

====
